---- MODULE Spec2Model ----
(***************************************************************************)
(* State-machine model of the authentication / authorization request       *)
(* pipeline of ts-rest-api-express: the user store (Mongoose model), the   *)
(* token codec (jwt.ts), the credential hasher (password.ts), the request  *)
(* validators, the authentication and self-access middleware and the auth  *)
(* and user services.                                                      *)
(*                                                                         *)
(* Requests are handled by an event loop: a handler runs without           *)
(* interruption between two awaited store operations, and handlers of      *)
(* different requests interleave at those awaits.  One action of the model *)
(* is therefore one store operation of one request together with the       *)
(* synchronous code that follows it up to the next await (or the response).*)
(* The rate limiters, which precede every route chain and never touch the  *)
(* user store, are not part of the chains modelled here: the requests of   *)
(* this model are the requests the limiters admitted.                      *)
(***************************************************************************)
EXTENDS Integers, Sequences, FiniteSets, TLC

\* ------------------------------------------------------------------ bounds
MaxClients == 2
MaxIds == 2
MaxTime == 1
MaxResetTokens == 2
MaxHeld == 1
MaxIps == 2

\* Lifetimes in clock ticks of the model (the code: '7d' and 15 minutes).
JwtExpiresIn == 1
ResetTokenTtl == 1

\* The limiters' maxima, scaled (the code: 100, 5, 3 and 100 per window).
generalMax == 3
authMax == 2
passwordResetMax == 1
createAccountMax == 1

Clients == 1..MaxClients
Ids == 1..MaxIds
IPs == 1..MaxIps

VARIABLES
    users,      \* the users collection: _id -> document
    nextId,     \* the next ObjectId the driver generates
    nextReset,  \* the next value crypto.randomBytes yields (never repeats)
    now,        \* Date.now()
    held,       \* the JWTs the clients have received and still remember
    req,        \* per client: its request (in flight or answered)
    hits        \* per rate limiter and IP: the requests counted in the window

vars == <<users, nextId, nextReset, now, held, req, hits>>

\* ------------------------------------------------------- strings of the model
\* String.prototype.toLowerCase on the e-mail literals of the model.
\* A lower-casing that leaves every string as it is.
toLowerCaseId(s) == s

toLowerCase(s) ==
    CASE s = "A@x.io" -> "a@x.io"
      [] s = "B@x.io" -> "b@x.io"
      [] OTHER -> s

\* s.length on the literals of the model.
StrLen(s) ==
    CASE s = "" -> 0
      [] s = "Al" -> 2
      [] s = "Bo" -> 2
      [] s = "abc" -> 3
      [] s = "secret1" -> 7
      [] s = "secret2" -> 7
      [] s = "secret3" -> 7
      [] s = "nomail" -> 6
      [] OTHER -> 6

\* zod's .email() on the literals of the model.
IsEmail(s) == s \in {"a@x.io", "A@x.io", "b@x.io", "B@x.io"}

\* ------------------------------------------------------------ credential hasher
NoHash == [alg |-> "none", text |-> ""]

\* bcrypt.hash: a salted one-way digest, kept symbolically as "digest of text".
hashPassword(password) == [alg |-> "bcrypt", text |-> password]

\* A comparison that accepts any password for a stored digest.
comparePasswordAny(password, hashedPassword) == hashedPassword.alg = "bcrypt"

\* bcrypt.compare: true iff hashedPassword is a digest of password.
comparePassword(password, hashedPassword) ==
    hashedPassword = hashPassword(password)

\* ------------------------------------------------------------------ token codec
NoToken == [kind |-> "none", sig |-> "", id |-> 0, email |-> "", exp |-> 0]
Garbage == [kind |-> "garbage", sig |-> "", id |-> 0, email |-> "", exp |-> 0]

\* jwt.sign(payload, secret, {expiresIn}): exp = iat + lifetime.
generateToken(id, email) ==
    [kind |-> "jwt", sig |-> "ok", id |-> id, email |-> email,
     exp |-> now + JwtExpiresIn]

\* The same token signed with another key.
Forge(token) == [token EXCEPT !.sig = "bad"]

\* jwt.verify: the signature first, then the expiry (now >= exp is expired);
\* each failure is rethrown as a 401 ApiError with its own message.
verifyToken(token) ==
    IF token.kind # "jwt" \/ token.sig # "ok"
    THEN [ok |-> FALSE, status |-> 401, message |-> "Invalid authentication token",
          id |-> 0, email |-> ""]
    ELSE IF now >= token.exp
    THEN [ok |-> FALSE, status |-> 401, message |-> "Authentication token has expired",
          id |-> 0, email |-> ""]
    ELSE [ok |-> TRUE, status |-> 200, message |-> "",
          id |-> token.id, email |-> token.email]

\* -------------------------------------------------------------------- user store
NoName == ""
NoAge == -1
NullToken == 0
NullDate == -1

Min(S) == CHOOSE x \in S : \A y \in S : x <= y

\* User.findOne({ email }): the first document in natural order, 0 for null.
findOneByEmail(email) ==
    LET m == {i \in DOMAIN users : users[i].email = email}
    IN  IF m = {} THEN 0 ELSE Min(m)

\* User.findById(id), 0 for null.
findById(id) == IF id \in DOMAIN users THEN id ELSE 0

\* A lookup by reset token that does not look at the expiry.
findOneByResetTokenAnyAge(token) ==
    LET m == {i \in DOMAIN users : users[i].passwordResetToken = token}
    IN  IF m = {} THEN 0 ELSE Min(m)

\* User.findOne({ passwordResetToken: token, passwordResetExpires: { $gt: now } }).
findOneByResetToken(token) ==
    LET m == {i \in DOMAIN users :
                /\ users[i].passwordResetToken = token
                /\ users[i].passwordResetExpires # NullDate
                /\ users[i].passwordResetExpires > now}
    IN  IF m = {} THEN 0 ELSE Min(m)

\* A collection without the unique index: no insert is rejected.
noUniqueIndex(email) == FALSE

\* The unique index on email: an insert of a present email fails (E11000).
uniqueIndexViolated(email) == \E i \in DOMAIN users : users[i].email = email

\* A document saved without the pre('save') hook: the password as given.
newUserDocumentPlain(body) ==
    [name |-> body.name,
     email |-> toLowerCase(body.email),
     password |-> [alg |-> "plain", text |-> body.password],
     age |-> body.age,
     passwordResetToken |-> NullToken,
     passwordResetExpires |-> NullDate]

\* new User(userData): the schema setters (lowercase) and, on save, the
\* pre('save') hook hashing the modified password.
newUserDocument(body) ==
    [name |-> body.name,
     email |-> toLowerCase(body.email),
     password |-> hashPassword(body.password),
     age |-> body.age,
     passwordResetToken |-> NullToken,
     passwordResetExpires |-> NullDate]

\* toJSON transform: _id becomes id, password is deleted; the select:false
\* reset fields are not part of the serialized document.
\* (password is NoHash in a serialized user that has no password property.)
NoJson == [id |-> 0, name |-> "", email |-> "", age |-> NoAge,
           password |-> NoHash]

\* A transform that does not delete the password.
toJSONKeep(id, doc) ==
    [id |-> id, name |-> doc.name, email |-> doc.email, age |-> doc.age,
     password |-> doc.password]

toJSON(id, doc) ==
    [id |-> id, name |-> doc.name, email |-> doc.email, age |-> doc.age,
     password |-> NoHash]

\* The entries of a user list: the service copies id, name, email and age
\* of each document found.
listEntry(id, doc) ==
    [id |-> id, name |-> doc.name, email |-> doc.email, age |-> doc.age,
     password |-> NoHash]

\* ---------------------------------------------------------------------- requests
NoBody ==
    [name |-> NoName, email |-> "", password |-> "", age |-> NoAge,
     currentPassword |-> "", newPassword |-> "", token |-> NullToken]

NoCtx == [id |-> 0, email |-> ""]

\* A JavaScript value that is a string or a number.
JsString(s) == [type |-> "string", str |-> s, num |-> 0]
JsNumber(n) == [type |-> "number", str |-> "", num |-> n]

\* The pagination block of a user list: page and limit as the service had
\* them, and the number of users counted.
NoPagination == [page |-> JsNumber(0), limit |-> JsNumber(0), total |-> 0]

NoData == [token |-> NoToken, resetToken |-> NullToken, user |-> NoJson,
           list |-> <<>>, pagination |-> NoPagination]

\* The query string of a request: page and limit as the strings received,
\* "" for a parameter that is absent.
NoQuery == [page |-> "", limit |-> ""]

\* An error handed to next(): statusCode and status are 0 and message is ""
\* when the error object has no such property; issues are the 'path'
\* entries a validation error's message lists, in the message's order.
NoErr == [statusCode |-> 0, status |-> 0, message |-> "", issues |-> <<>>,
          isOperational |-> FALSE]

\* new ApiError(message, statusCode): isOperational defaults to true.
ApiError(message, statusCode) ==
    [NoErr EXCEPT !.statusCode = statusCode, !.message = message,
                  !.isOperational = TRUE]

\* new Error(message)
Error(message) == [NoErr EXCEPT !.message = message]

\* A request as it arrives: nothing attached, nothing answered.
NewRequest(op, pc, bearer, rid, body) ==
    [op |-> op, pc |-> pc, bearer |-> bearer, rid |-> rid, body |-> body,
     user |-> NoCtx, doc |-> 0, status |-> 0, message |-> "", data |-> NoData,
     ip |-> 0, query |-> NoQuery, origin |-> "", err |-> NoErr]

\* res.status(status).json({ message, data }) or next(new ApiError(message, status)):
\* the request is over; what stays of it is the response and the context that
\* was attached to it.
Respond(r, status, message, data) ==
    [op |-> r.op, pc |-> "done", bearer |-> NoToken, rid |-> 0, body |-> NoBody,
     user |-> r.user, doc |-> 0, status |-> status, message |-> message,
     data |-> data, ip |-> 0, query |-> NoQuery, origin |-> "", err |-> r.err]

Fail(r, status, message) == Respond(r, status, message, NoData)

\* The four rate limiters, each with a store of its own.
Buckets == {"general", "auth", "passwordReset", "createAccount"}

Init ==
    /\ users = <<>>
    /\ nextId = 1
    /\ nextReset = 1
    /\ now = 0
    /\ held = {}
    /\ req = [c \in Clients |-> NewRequest("none", "done", NoToken, 0, NoBody)]
    /\ hits = [b \in Buckets |-> [ip \in IPs |-> 0]]

\* ------------------------------------------------------------ request validator
MalformedId == -1

IsName(s, max) == StrLen(s) >= 2 /\ StrLen(s) <= max /\ s \in {"Al", "Bo"}
IsAge(n) == n >= 13 /\ n <= 120
IsNewPassword(s) == StrLen(s) >= 6 /\ StrLen(s) <= 128

\* registerUserSchema.body: the parsed body (email trimmed and lower-cased,
\* unknown keys stripped) or a failure.
registerUserSchema(body) ==
    [ok |-> /\ IsName(body.name, 100)
            /\ IsEmail(toLowerCase(body.email))
            /\ IsNewPassword(body.password)
            /\ IsAge(body.age),
     body |-> [NoBody EXCEPT !.name = body.name,
                             !.email = toLowerCase(body.email),
                             !.password = body.password,
                             !.age = body.age]]

\* loginUserSchema.body
loginUserSchema(body) ==
    [ok |-> /\ IsEmail(toLowerCase(body.email))
            /\ StrLen(body.password) >= 1 /\ StrLen(body.password) <= 128,
     body |-> [NoBody EXCEPT !.email = toLowerCase(body.email),
                             !.password = body.password]]

\* updateUserSchema.body: name and age optional, at least one of them given.
\* An update schema that passes unknown keys of the body through.
updateUserSchemaPassthrough(body) ==
    [ok |-> /\ (body.name # NoName => IsName(body.name, 50))
            /\ (body.age # NoAge => IsAge(body.age))
            /\ (body.name # NoName \/ body.age # NoAge),
     body |-> body]

updateUserSchema(body) ==
    [ok |-> /\ (body.name # NoName => IsName(body.name, 50))
            /\ (body.age # NoAge => IsAge(body.age))
            /\ (body.name # NoName \/ body.age # NoAge),
     body |-> [NoBody EXCEPT !.name = body.name, !.age = body.age]]

\* createUserSchema.body
createUserSchema(body) ==
    [ok |-> /\ IsName(body.name, 100)
            /\ IsEmail(toLowerCase(body.email))
            /\ IsNewPassword(body.password)
            /\ IsAge(body.age),
     body |-> [NoBody EXCEPT !.name = body.name,
                             !.email = toLowerCase(body.email),
                             !.password = body.password,
                             !.age = body.age]]

\* changePasswordSchema.body: both passwords given, the new one different.
changePasswordSchema(body) ==
    [ok |-> /\ StrLen(body.currentPassword) >= 1
            /\ StrLen(body.currentPassword) <= 128
            /\ IsNewPassword(body.newPassword)
            /\ body.currentPassword # body.newPassword,
     body |-> [NoBody EXCEPT !.currentPassword = body.currentPassword,
                             !.newPassword = body.newPassword]]

\* userParamsSchema.params: id is a 24-digit hexadecimal string.
userParamsSchema(rid) == rid # MalformedId /\ rid > 0

\* validateRequest(schema): the parsed body replaces req.body and the chain
\* goes on; a ZodError ends the request with a 400 ApiError.
validateRequest(r, parsed) ==
    IF parsed.ok
    THEN [r EXCEPT !.body = parsed.body]
    ELSE Fail(r, 400, "Request validation failed")

\* validateParams(schema)
validateParams(r, ok) ==
    IF ok THEN r ELSE Fail(r, 400, "Validation failed")

\* The issues of createUserSchema.shape.body on a body: the paths of the
\* failing fields, in the schema's field order.
bodyFails(body, f) ==
    CASE f = "name" -> ~IsName(body.name, 100)
      [] f = "email" -> ~IsEmail(toLowerCase(body.email))
      [] f = "password" -> ~IsNewPassword(body.password)
      [] f = "age" -> ~IsAge(body.age)

bodyIssues(body) ==
    LET Failing(f) == bodyFails(body, f)
    IN  SelectSeq(<<"name", "email", "password", "age">>, Failing)

\* The issues of userParamsSchema.shape.params.
paramsIssues(rid) == IF userParamsSchema(rid) THEN <<>> ELSE <<"id">>

\* /^\d+$/ and Number() on the query strings of the model.
IsDigits(s) == s \in {"0", "2", "5", "200"}

Number(s) ==
    CASE s = "0" -> 0
      [] s = "2" -> 2
      [] s = "5" -> 5
      [] s = "200" -> 200
      [] OTHER -> -1

\* getUsersSchema.shape.query on page and limit: digits only, transformed to
\* numbers, page at least 1, limit from 1 to 100; 1 and 10 when absent.
queryFails(query, f) ==
    CASE f = "page" -> /\ query.page # ""
                       /\ ~(IsDigits(query.page) /\ Number(query.page) >= 1)
      [] f = "limit" -> /\ query.limit # ""
                        /\ ~(/\ IsDigits(query.limit)
                             /\ Number(query.limit) >= 1
                             /\ Number(query.limit) <= 100)

queryIssues(query) ==
    LET Failing(f) == queryFails(query, f)
    IN  SelectSeq(<<"page", "limit">>, Failing)

getUsersQuery(query) ==
    [page |-> IF query.page = "" THEN 1 ELSE Number(query.page),
     limit |-> IF query.limit = "" THEN 10 ELSE Number(query.limit)]

\* The catch of validate: next(new ApiError('Validation failed: ' + the
\* issues' 'path: message' joined by ', ', 400)).
validationFailed(r, issues) ==
    [r EXCEPT !.pc = "globalErrorHandler",
              !.err = [ApiError("Validation failed", 400) EXCEPT !.issues = issues]]

\* validate(schemas): body, params and query are parsed one after the other,
\* each against its own schema; a parsed body or params replaces the
\* request's, a parsed query is dropped; the first part that fails throws
\* its ZodError.  (The headers branch, of the same shape as params, is left
\* out: no schema of the repository is one for headers.)
validate(schemas, r) ==
    LET b == IF "body" \in schemas THEN bodyIssues(r.body) ELSE <<>>
        r1 == IF "body" \in schemas
              THEN [r EXCEPT !.body = createUserSchema(r.body).body]
              ELSE r
        p == IF "params" \in schemas THEN paramsIssues(r1.rid) ELSE <<>>
        q == IF "query" \in schemas THEN queryIssues(r1.query) ELSE <<>>
    IN  IF b # <<>> THEN validationFailed(r, b)
        ELSE IF p # <<>> THEN validationFailed(r1, p)
        ELSE IF q # <<>> THEN validationFailed(r1, q)
        ELSE [r1 EXCEPT !.pc = "next"]

\* --------------------------------------------------------- auth middleware
\* extractToken: the Authorization header's bearer token, NoToken for null.
extractToken(r) == r.bearer

\* getUserByEmail(email): User.findOne({ email: email.toLowerCase() }).
getUserByEmail(email) == findOneByEmail(toLowerCase(email))

\* authenticate: extract the bearer token, verify it, look the user up by the
\* token's email claim and attach { id, email } of the document found.
authenticate(r) ==
    LET token == extractToken(r)
        decoded == verifyToken(token)
        currentUser == getUserByEmail(decoded.email)
    IN  IF token = NoToken
        THEN Fail(r, 401, "Access token is required. Please log in.")
        ELSE IF ~decoded.ok
        THEN Fail(r, decoded.status, decoded.message)
        ELSE IF currentUser = 0
        THEN Fail(r, 401, "The user belonging to this token no longer exists.")
        ELSE [r EXCEPT !.user = [id |-> currentUser,
                                 email |-> users[currentUser].email]]

\* A guard that checks the context and the route id but not their equality.
requireSelfAccessAny(r) ==
    IF r.user = NoCtx
    THEN Fail(r, 401, "You must be logged in to access this resource.")
    ELSE IF r.rid = 0
    THEN Fail(r, 400, "Resource ID is required.")
    ELSE r

\* requireSelfAccess: 401 without req.user, 400 without req.params.id (0 here),
\* 403 when req.user.id differs from it.
requireSelfAccess(r) ==
    IF r.user = NoCtx
    THEN Fail(r, 401, "You must be logged in to access this resource.")
    ELSE IF r.rid = 0
    THEN Fail(r, 400, "Resource ID is required.")
    ELSE IF r.user.id # r.rid
    THEN Fail(r, 403, "You can only access your own resources.")
    ELSE r

\* A route chain: each middleware runs on the request the one before it passed
\* on (pc is "done" once one of them has answered).
Then(r, next) == IF r.pc = "done" THEN r ELSE next

\* The bearer credentials a client can send: none, a malformed one, a token
\* some client received, or such a token signed with another key.
Bearers == {NoToken, Garbage} \cup held \cup {Forge(t) : t \in held}

\* What the clients remember once `token` has been handed out: at most MaxHeld
\* tokens, the new one or an older one forgotten when there are more.
Remember(token) ==
    IF Cardinality(held \cup {token}) <= MaxHeld
    THEN {held \cup {token}}
    ELSE {held} \cup {(held \ {t}) \cup {token} : t \in held}

Idle(c) == req[c].pc = "done"

\* --------------------------------------------------------------- rate limiter
limiterMax(b) ==
    CASE b = "general" -> generalMax
      [] b = "auth" -> authMax
      [] b = "passwordReset" -> passwordResetMax
      [] b = "createAccount" -> createAccountMax

\* The message of the ApiError each limiter's handler throws.
limiterMessage(b) ==
    CASE b = "general" -> "Too many requests from this IP, please try again later."
      [] b = "auth" -> "Too many authentication attempts, please try again later."
      [] b = "passwordReset" -> "Too many password reset attempts, please try again later."
      [] b = "createAccount" -> "Too many accounts created from this IP, please try again later."

\* A limiter that already rejects the request that reaches its maximum.
rateLimitEarly(b, st) ==
    IF st.r.pc = "done"
    THEN st
    ELSE LET h == [st.hits EXCEPT ![b][st.r.ip] = @ + 1]
         IN  [hits |-> h,
              r |-> IF h[b][st.r.ip] >= limiterMax(b)
                    THEN Fail(st.r, 429, limiterMessage(b))
                    ELSE st.r]

\* A limiter that keeps one count per bucket, whatever the IP.
rateLimitAnyIp(b, st) ==
    IF st.r.pc = "done"
    THEN st
    ELSE LET h == [st.hits EXCEPT ![b] = [ip \in IPs |-> @[ip] + 1]]
         IN  [hits |-> h,
              r |-> IF h[b][st.r.ip] > limiterMax(b)
                    THEN Fail(st.r, 429, limiterMessage(b))
                    ELSE st.r]

\* rateLimit({ windowMs, max, handler }) as one middleware of a chain: the
\* request is counted under its IP in the limiter's own store, and when the
\* count exceeds max the handler throws the 429 ApiError.  st is the pair of
\* the counters and the request as the middleware before it left them.
rateLimit(b, st) ==
    IF st.r.pc = "done"
    THEN st
    ELSE LET h == [st.hits EXCEPT ![b][st.r.ip] = @ + 1]
         IN  [hits |-> h,
              r |-> IF h[b][st.r.ip] > limiterMax(b)
                    THEN Fail(st.r, 429, limiterMessage(b))
                    ELSE st.r]

\* A routing in which change-password is not behind the password-reset limiter.
routeLimitersUnshared(op) ==
    CASE op = "register" -> <<"general", "createAccount">>
      [] op = "login" -> <<"general", "auth">>
      [] op \in {"forgotPassword", "resetPassword"} ->
            <<"general", "passwordReset">>
      [] OTHER -> <<"general">>

\* The limiters each route lists, in the router's order.
routeLimiters(op) ==
    CASE op = "register" -> <<"general", "createAccount">>
      [] op = "login" -> <<"general", "auth">>
      [] op \in {"forgotPassword", "resetPassword", "changePassword"} ->
            <<"general", "passwordReset">>
      [] OTHER -> <<"general">>

\* The limiters of r's route applied to r, starting from the counters h.
limiters(r, h) ==
    LET chain == routeLimiters(r.op)
        st1 == rateLimit(chain[1], [hits |-> h, r |-> r])
    IN  IF Len(chain) = 1 THEN st1 ELSE rateLimit(chain[2], st1)

\* A request of `requests` arrives from some IP and runs through the limiters
\* of its route (a counter stops at one above its maximum).
Arrive(c, requests) ==
    /\ Idle(c)
    /\ \E ip \in IPs, r \in requests :
         /\ \A i \in 1..Len(routeLimiters(r.op)) :
               hits[routeLimiters(r.op)[i]][ip] <= limiterMax(routeLimiters(r.op)[i])
         /\ LET st == limiters([r EXCEPT !.ip = ip], hits)
            IN  /\ req' = [req EXCEPT ![c] = st.r]
                /\ hits' = st.hits
    /\ UNCHANGED <<users, nextId, nextReset, now, held>>

\* The window of one limiter has elapsed for one IP: its count starts again.
WindowElapsed(b, ip) ==
    /\ hits[b][ip] > 0
    /\ hits' = [hits EXCEPT ![b][ip] = 0]
    /\ UNCHANGED <<users, nextId, nextReset, now, held, req>>

\* skipSuccessfulRequests of authLimiter: when the response of a counted
\* request has a status below 400 the request is taken off the count.
skipSuccessfulRequests(r, status) ==
    IF r.ip # 0 /\ status < 400 /\ hits["auth"][r.ip] > 0
    THEN [hits EXCEPT !["auth"][r.ip] = @ - 1]
    ELSE hits

\* The requests POST /auth/register, /auth/login and /auth/forgot-password
\* can carry.
RegisterRequests(emails, passwords) ==
    IF nextId + Cardinality({d \in Clients : req[d].op = "register"
                                             /\ req[d].pc # "done"}) <= MaxIds
    THEN {NewRequest("register", "register", NoToken, 0,
                     [NoBody EXCEPT !.name = "Al", !.email = email,
                                    !.password = password, !.age = 20]) :
             email \in emails, password \in passwords}
    ELSE {}

LoginRequests(emails, passwords) ==
    {NewRequest("login", "login", NoToken, 0,
                [NoBody EXCEPT !.email = email, !.password = password]) :
        email \in emails, password \in passwords}

ForgotRequests(emails) ==
    IF nextReset + Cardinality({d \in Clients : req[d].op = "forgotPassword"
                                                /\ req[d].pc # "done"})
          <= MaxResetTokens
    THEN {NewRequest("forgotPassword", "forgotPassword", NoToken, 0,
                     [NoBody EXCEPT !.email = email]) : email \in emails}
    ELSE {}

\* The requests POST /auth/reset-password and PATCH /auth/change-password can
\* carry.
ResetRequests(tokens, passwords) ==
    {NewRequest("resetPassword", "resetPassword", NoToken, 0,
                [NoBody EXCEPT !.token = token, !.newPassword = newPassword]) :
        token \in tokens, newPassword \in passwords}

ChangeRequests(currents, news) ==
    {NewRequest("changePassword", "authenticate", bearer, 0,
                [NoBody EXCEPT !.currentPassword = currentPassword,
                               !.newPassword = newPassword]) :
        bearer \in Bearers, currentPassword \in currents, newPassword \in news}

\* -------------------------------------------------------------- auth service
\* A POST /auth/register request arrives.
PostRegister(c, emails, passwords) ==
    /\ Idle(c)
    /\ nextId + Cardinality({d \in Clients : req[d].op = "register"
                                             /\ req[d].pc # "done"}) <= MaxIds
    /\ \E email \in emails, password \in passwords :
         req' = [req EXCEPT ![c] =
                    NewRequest("register", "register", NoToken, 0,
                               [NoBody EXCEPT !.name = "Al", !.email = email,
                                              !.password = password, !.age = 20])]
    /\ UNCHANGED <<users, nextId, nextReset, now, held, hits>>

\* registerUser up to its first await: the existence check.
registerUser_findOne(r) ==
    LET existingUser == findOneByEmail(r.body.email)
    IN  IF existingUser # 0
        THEN Fail(r, 409, "Email already registered")
        ELSE [r EXCEPT !.pc = "registerUser.save"]

\* validateRequest(registerUserSchema), register, registerUser's findOne.
register(c) ==
    /\ req[c].pc = "register"
    /\ LET r1 == validateRequest(req[c], registerUserSchema(req[c].body))
       IN  req' = [req EXCEPT ![c] = Then(r1, registerUser_findOne(r1))]
    /\ UNCHANGED <<users, nextId, nextReset, now, held, hits>>

\* registerUser from user.save() on: the insert, the token, the response.
\* A rejected insert is no ApiError and is rethrown as 'Registration failed'.
registerUser_save(c) ==
    /\ req[c].pc = "registerUser.save"
    /\ LET r == req[c]
           user == newUserDocument(r.body)
           token == generateToken(nextId, user.email)
       IN  IF uniqueIndexViolated(user.email)
           THEN /\ req' = [req EXCEPT ![c] = Fail(r, 500, "Registration failed")]
                /\ UNCHANGED <<users, nextId, held>>
           ELSE /\ users' = users @@ (nextId :> user)
                /\ nextId' = nextId + 1
                /\ held' \in Remember(token)
                /\ req' = [req EXCEPT ![c] =
                        Respond(r, 201, "User registered successfully",
                                [NoData EXCEPT !.token = token,
                                               !.user = toJSON(nextId, user)])]
    /\ UNCHANGED <<nextReset, now, hits>>

\* A POST /auth/login request arrives.
PostLogin(c, emails, passwords) ==
    /\ Idle(c)
    /\ \E email \in emails, password \in passwords :
         req' = [req EXCEPT ![c] =
                    NewRequest("login", "login", NoToken, 0,
                               [NoBody EXCEPT !.email = email,
                                              !.password = password])]
    /\ UNCHANGED <<users, nextId, nextReset, now, held, hits>>

\* loginUser: one lookup (with the password selected), the comparison, the token.
loginUser(r) ==
    LET user == findOneByEmail(r.body.email)
        token == generateToken(user, users[user].email)
    IN  IF user = 0
        THEN Fail(r, 401, "Invalid login credentials")
        ELSE IF ~comparePassword(r.body.password, users[user].password)
        THEN Fail(r, 401, "Invalid login credentials")
        ELSE Respond(r, 200, "Login successful",
                     [NoData EXCEPT !.token = token,
                                    !.user = toJSON(user, users[user])])

\* validateRequest(loginUserSchema), login, loginUser.
login(c) ==
    /\ req[c].pc = "login"
    /\ LET r1 == validateRequest(req[c], loginUserSchema(req[c].body))
           r2 == Then(r1, loginUser(r1))
       IN  /\ req' = [req EXCEPT ![c] = r2]
           /\ held' \in IF r2.data.token # NoToken
                        THEN Remember(r2.data.token) ELSE {held}
           /\ hits' = skipSuccessfulRequests(req[c], r2.status)
    /\ UNCHANGED <<users, nextId, nextReset, now>>

\* A GET /auth/me request arrives.
GetMe(c) ==
    /\ Idle(c)
    /\ \E bearer \in Bearers :
         req' = [req EXCEPT ![c] =
                    NewRequest("getProfile", "authenticate", bearer, 0, NoBody)]
    /\ UNCHANGED <<users, nextId, nextReset, now, held, hits>>

\* getProfile / getAuthenticatedUserProfile: findById(req.user.id).
getProfile(c) ==
    /\ req[c].pc = "getProfile"
    /\ LET r == req[c]
           user == findById(r.user.id)
       IN  req' = [req EXCEPT ![c] =
                IF user = 0 THEN Fail(r, 404, "User not found")
                ELSE Respond(r, 200, "Profile retrieved successfully",
                             [NoData EXCEPT !.user = toJSON(user, users[user])])]
    /\ UNCHANGED <<users, nextId, nextReset, now, held, hits>>

\* -------------------------------------------------------------- user service
\* A PUT /users/:id request arrives.
PutUser(c, rids, bodies) ==
    /\ Idle(c)
    /\ \E bearer \in Bearers, rid \in rids, body \in bodies :
         req' = [req EXCEPT ![c] =
                    NewRequest("updateUser", "authenticate", bearer, rid, body)]
    /\ UNCHANGED <<users, nextId, nextReset, now, held, hits>>

\* A DELETE /users/:id request arrives.
DeleteUser(c, rids) ==
    /\ Idle(c)
    /\ \E bearer \in Bearers, rid \in rids :
         req' = [req EXCEPT ![c] =
                    NewRequest("deleteUser", "authenticate", bearer, rid, NoBody)]
    /\ UNCHANGED <<users, nextId, nextReset, now, held, hits>>

\* The middleware a protected route lists from authenticate up to its
\* controller, in the router's order; the controller's store operation is the
\* request's next step.
routeChain(r) ==
    LET r1 == authenticate(r)
    IN  CASE r.op = "getProfile" -> Then(r1, [r1 EXCEPT !.pc = "getProfile"])
          [] r.op = "updateUser" ->
                LET r2 == Then(r1, requireSelfAccess(r1))
                    r3 == Then(r2, validateParams(r2, userParamsSchema(r2.rid)))
                    r4 == Then(r3, validateRequest(r3, updateUserSchema(r3.body)))
                IN  Then(r4, [r4 EXCEPT !.pc = "updateUser"])
          [] r.op = "deleteUser" ->
                LET r2 == Then(r1, requireSelfAccess(r1))
                    r3 == Then(r2, validateParams(r2, userParamsSchema(r2.rid)))
                IN  Then(r3, [r3 EXCEPT !.pc = "deleteUser"])
          [] r.op = "changePassword" ->
                LET r2 == Then(r1, validateRequest(r1, changePasswordSchema(r1.body)))
                IN  Then(r2, [r2 EXCEPT !.pc = "changePassword"])
          [] r.op = "getUserById" ->
                LET r2 == Then(r1, validateParams(r1, userParamsSchema(r1.rid)))
                IN  Then(r2, [r2 EXCEPT !.pc = "getUserById"])
          [] r.op = "getUsers" ->
                LET r2 == Then(r1, validate({"query"}, r1))
                IN  IF r2.pc = "next" THEN [r2 EXCEPT !.pc = "getUsers"] ELSE r2
          [] r.op = "logout" ->
                Then(r1, Respond(r1, 200, "Logged out successfully", NoData))
          [] OTHER -> r1

\* The request's authenticate step: the user lookup and the synchronous
\* middleware after it.
Authenticate(c) ==
    /\ req[c].pc = "authenticate"
    /\ req' = [req EXCEPT ![c] = routeChain(req[c])]
    /\ UNCHANGED <<users, nextId, nextReset, now, held, hits>>

\* The $set of updateUser: only the fields the body provides.
setFields(doc, updateData) ==
    [doc EXCEPT !.name = IF updateData.name # NoName THEN updateData.name ELSE @,
                !.age = IF updateData.age # NoAge THEN updateData.age ELSE @,
                !.email = IF updateData.email # "" THEN toLowerCase(updateData.email)
                          ELSE @,
                !.password = IF updateData.password # ""
                             THEN [alg |-> "plain", text |-> updateData.password]
                             ELSE @]

\* updateUser (controller and service): findByIdAndUpdate(id, { $set: body }).
updateUser(c) ==
    /\ req[c].pc = "updateUser"
    /\ LET r == req[c]
           id == r.rid
       IN  IF r.user.id # id
           THEN /\ req' = [req EXCEPT ![c] =
                              Fail(r, 403, "You can only update your own profile")]
                /\ UNCHANGED users
           ELSE IF findById(id) = 0
           THEN /\ req' = [req EXCEPT ![c] = Fail(r, 404, "User not found")]
                /\ UNCHANGED users
           ELSE /\ users' = [users EXCEPT ![id] = setFields(@, r.body)]
                /\ req' = [req EXCEPT ![c] =
                        Respond(r, 200, "User updated successfully",
                                [NoData EXCEPT !.user = toJSON(id, users'[id])])]
    /\ UNCHANGED <<nextId, nextReset, now, held, hits>>

\* deleteUser (controller and service): findByIdAndDelete(id).
deleteUser(c) ==
    /\ req[c].pc = "deleteUser"
    /\ LET r == req[c]
           id == r.rid
       IN  IF r.user.id # id
           THEN /\ req' = [req EXCEPT ![c] =
                              Fail(r, 403, "You can only delete your own profile")]
                /\ UNCHANGED users
           ELSE IF findById(id) = 0
           THEN /\ req' = [req EXCEPT ![c] = Fail(r, 404, "User not found")]
                /\ UNCHANGED users
           ELSE /\ users' = [i \in DOMAIN users \ {id} |-> users[i]]
                /\ req' = [req EXCEPT ![c] =
                        Respond(r, 200, "User deleted successfully", NoData)]
    /\ UNCHANGED <<nextId, nextReset, now, held, hits>>

\* A GET /users/:id request arrives.
GetUser(c, rids) ==
    /\ Idle(c)
    /\ \E bearer \in Bearers, rid \in rids :
         req' = [req EXCEPT ![c] =
                    NewRequest("getUserById", "authenticate", bearer, rid, NoBody)]
    /\ UNCHANGED <<users, nextId, nextReset, now, held, hits>>

\* getUserById (controller and service): findById(req.params.id).
getUserById(c) ==
    /\ req[c].pc = "getUserById"
    /\ LET r == req[c]
           id == r.rid
       IN  req' = [req EXCEPT ![c] =
                IF id = 0 THEN Fail(r, 400, "User ID is required")
                ELSE IF findById(id) = 0 THEN Fail(r, 404, "User not found")
                ELSE Respond(r, 200, "User retrieved successfully",
                             [NoData EXCEPT !.user = toJSON(id, users[id])])]
    /\ UNCHANGED <<users, nextId, nextReset, now, held, hits>>

\* A POST /users request arrives.  The user router has no route for it
\* (its routes are GET /, GET /:id, PUT /:id and DELETE /:id), so the request
\* falls through the router to the application's handler of undefined routes.
PostUsers(c, emails, passwords) ==
    /\ Idle(c)
    /\ \E bearer \in Bearers, email \in emails, password \in passwords :
         req' = [req EXCEPT ![c] =
                    NewRequest("createUser", "notFound", bearer, 0,
                               [NoBody EXCEPT !.name = "Al", !.email = email,
                                              !.password = password, !.age = 20])]
    /\ UNCHANGED <<users, nextId, nextReset, now, held, hits>>

\* The handler of undefined routes: 404 'Route ... not found'.
notFoundHandler(c) ==
    /\ req[c].pc = "notFound"
    /\ req' = [req EXCEPT ![c] = Respond(req[c], 404, "Route not found", NoData)]
    /\ UNCHANGED <<users, nextId, nextReset, now, held, hits>>

\* A GET /users request arrives.
GetUsers(c, pages, limits) ==
    /\ Idle(c)
    /\ \E bearer \in Bearers, page \in pages, limit \in limits :
         req' = [req EXCEPT ![c] =
                    [NewRequest("getUsers", "authenticate", bearer, 0, NoBody)
                       EXCEPT !.query = [page |-> page, limit |-> limit]]]
    /\ UNCHANGED <<users, nextId, nextReset, now, held, hits>>

\* The numeric value JavaScript's arithmetic gives a string or a number.
ToNumber(v) == IF v.type = "number" THEN v.num ELSE Number(v.str)

\* User.find({}).sort({ createdAt: -1 }): the ids of the stored users, the
\* newest first.
findSorted ==
    LET ids == DOMAIN users
        n == Cardinality(ids)
    IN  CHOOSE f \in [1..n -> ids] :
            \A i, j \in 1..n : i < j => f[i] > f[j]

\* getUsers (controller and service): the controller hands req.query to the
\* service; page and limit default to 1 and 10 when the query has none;
\* skip = (page - 1) * limit; the users found are mapped to their public
\* fields and the pagination block repeats page and limit.
getUsers(c) ==
    /\ req[c].pc = "getUsers"
    /\ LET r == req[c]
           queryParams == r.query
           page == IF queryParams.page = "" THEN JsNumber(1)
                   ELSE JsString(queryParams.page)
           limit == IF queryParams.limit = "" THEN JsNumber(10)
                    ELSE JsString(queryParams.limit)
           skip == (ToNumber(page) - 1) * ToNumber(limit)
           found == findSorted
           last == Min({skip + ToNumber(limit), Len(found)})
           list == [i \in 1..(IF last > skip THEN last - skip ELSE 0) |->
                       listEntry(found[skip + i], users[found[skip + i]])]
       IN  req' = [req EXCEPT ![c] =
                Respond(r, 200, "Users retrieved successfully",
                        [NoData EXCEPT
                            !.list = list,
                            !.pagination = [page |-> page, limit |-> limit,
                                            total |-> Len(found)]])]
    /\ UNCHANGED <<users, nextId, nextReset, now, held, hits>>

\* ------------------------------------------------------------ error handler
\* globalErrorHandler(err): the status is err.statusCode || err.status || 500
\* and the message err.message || 'Internal server error'.
globalErrorHandler(c) ==
    /\ req[c].pc = "globalErrorHandler"
    /\ LET r == req[c]
           err == r.err
           statusCode == IF err.statusCode # 0 THEN err.statusCode
                         ELSE IF err.status # 0 THEN err.status
                         ELSE 500
       IN  req' = [req EXCEPT ![c] =
                      Fail(r, statusCode,
                           IF err.message # "" THEN err.message
                           ELSE "Internal server error")]
    /\ UNCHANGED <<users, nextId, nextReset, now, held, hits>>

\* getAllowedOrigins(), development configuration.
allowedOrigins == {"http://localhost:3000", "http://localhost:5173"}

\* A GET / request arrives, with an Origin header or ("") without one.
GetRoot(c, origins) ==
    /\ Idle(c)
    /\ \E origin \in origins :
         req' = [req EXCEPT ![c] =
                    [NewRequest("root", "cors", NoToken, 0, NoBody)
                       EXCEPT !.origin = origin]]
    /\ UNCHANGED <<users, nextId, nextReset, now, held, hits>>

\* corsMiddleware and the root endpoint after it: a request without an origin
\* or with an allowed one goes on and is welcomed; for any other origin the
\* origin callback gives cors an Error, which cors hands to next().
corsMiddleware(c) ==
    /\ req[c].pc = "cors"
    /\ LET r == req[c]
       IN  req' = [req EXCEPT ![c] =
                IF r.origin = "" \/ r.origin \in allowedOrigins
                THEN Respond(r, 200, "Welcome to TypeScript Express REST API",
                             NoData)
                ELSE [r EXCEPT !.pc = "globalErrorHandler",
                               !.err = Error("CORS policy: This origin is not allowed")]]
    /\ UNCHANGED <<users, nextId, nextReset, now, held, hits>>

\* A request arrives on a route that lists validate({ body, params, query })
\* before its controller.
ValidateSchemas == {"body", "params", "query"}

PostValidated(c, emails, passwords, rids, pages, limits) ==
    /\ Idle(c)
    /\ \E email \in emails, password \in passwords, rid \in rids,
          page \in pages, limit \in limits :
         req' = [req EXCEPT ![c] =
                    [NewRequest("validate", "validate", NoToken, rid,
                                [NoBody EXCEPT !.name = "Al", !.email = email,
                                               !.password = password, !.age = 20])
                       EXCEPT !.query = [page |-> page, limit |-> limit]]]
    /\ UNCHANGED <<users, nextId, nextReset, now, held, hits>>

\* The validate middleware of that route.
validateAll(c) ==
    /\ req[c].pc = "validate"
    /\ req' = [req EXCEPT ![c] = validate(ValidateSchemas, req[c])]
    /\ UNCHANGED <<users, nextId, nextReset, now, held, hits>>

\* What follows validate on that route: the controller answers.
nextHandler(c) ==
    /\ req[c].pc = "next"
    /\ req' = [req EXCEPT ![c] = Respond(req[c], 200, "OK", NoData)]
    /\ UNCHANGED <<users, nextId, nextReset, now, held, hits>>

\* The clock.
Tick ==
    /\ now < MaxTime
    /\ now' = now + 1
    /\ UNCHANGED <<users, nextId, nextReset, held, req, hits>>

\* ------------------------------------------------------------- verify token
\* What a call of verifyAuthToken gives back: a returned result value or a
\* thrown error (threw, with the error's status).
NoResult ==
    [threw |-> FALSE, status |-> 0, valid |-> FALSE, user |-> NoCtx, error |-> ""]

\* verifyAuthToken without its catch clause: what the try block throws
\* reaches the caller.
verifyAuthTokenThrows(token, lookupFails) ==
    LET decoded == verifyToken(token)
    IN  IF ~decoded.ok
        THEN [NoResult EXCEPT !.threw = TRUE, !.status = decoded.status,
                              !.error = decoded.message]
        ELSE IF lookupFails
        THEN [NoResult EXCEPT !.threw = TRUE, !.status = 500,
                              !.error = "MongoError"]
        ELSE IF findById(decoded.id) = 0
        THEN [NoResult EXCEPT !.error = "User no longer exists"]
        ELSE [NoResult EXCEPT !.valid = TRUE,
                              !.user = [id |-> decoded.id, email |-> decoded.email]]

\* verifyAuthToken: JWT.verifyToken and User.findById(decoded.id) inside a
\* try block whose catch returns { valid: false, error }.  lookupFails says
\* that the store rejects the lookup.
verifyAuthToken(token, lookupFails) ==
    LET decoded == verifyToken(token)
        tried ==
            IF ~decoded.ok
            THEN [NoResult EXCEPT !.threw = TRUE, !.status = decoded.status,
                                  !.error = decoded.message]
            ELSE IF lookupFails
            THEN [NoResult EXCEPT !.threw = TRUE, !.status = 500,
                                  !.error = "MongoError"]
            ELSE IF findById(decoded.id) = 0
            THEN [NoResult EXCEPT !.error = "User no longer exists"]
            ELSE [NoResult EXCEPT !.valid = TRUE,
                                  !.user = [id |-> decoded.id,
                                            email |-> decoded.email]]
    IN  IF tried.threw
        THEN [NoResult EXCEPT !.error = "Invalid or expired token"]
        ELSE tried

\* verifyTokenSchema.body: a non-empty token (the token travels in the body;
\* the request record keeps it in its bearer field).
verifyTokenSchema(r) == [ok |-> r.bearer # NoToken, body |-> r.body]

\* A POST /auth/verify-token request arrives.
PostVerify(c) ==
    /\ Idle(c)
    /\ \E token \in Bearers :
         req' = [req EXCEPT ![c] =
                    NewRequest("verifyToken", "verifyToken", token, 0, NoBody)]
    /\ UNCHANGED <<users, nextId, nextReset, now, held, hits>>

\* validateRequest(verifyTokenSchema) and the verifyToken controller: 401 for
\* an invalid result, 200 with the subject for a valid one; an error thrown
\* by the service goes to the error responder with its own status.
verifyTokenRoute(c) ==
    /\ req[c].pc = "verifyToken"
    /\ \E lookupFails \in BOOLEAN :
         LET r1 == validateRequest(req[c], verifyTokenSchema(req[c]))
             result == verifyAuthToken(r1.bearer, lookupFails)
         IN  req' = [req EXCEPT ![c] =
                 Then(r1,
                      IF result.threw THEN Fail(r1, result.status, result.error)
                      ELSE IF ~result.valid
                      THEN Fail(r1, 401, "Token verification failed")
                      ELSE Respond([r1 EXCEPT !.user = result.user], 200,
                                   "Token is valid",
                                   [NoData EXCEPT !.user.id = result.user.id,
                                                  !.user.email = result.user.email]))]
    /\ UNCHANGED <<users, nextId, nextReset, now, held, hits>>

\* ----------------------------------------------------------- change password
\* A PATCH /auth/change-password request arrives.
PatchPassword(c, currents, news) ==
    /\ Idle(c)
    /\ \E bearer \in Bearers, currentPassword \in currents, newPassword \in news :
         req' = [req EXCEPT ![c] =
                    NewRequest("changePassword", "authenticate", bearer, 0,
                               [NoBody EXCEPT !.currentPassword = currentPassword,
                                              !.newPassword = newPassword])]
    /\ UNCHANGED <<users, nextId, nextReset, now, held, hits>>

\* A POST /auth/logout request arrives.
PostLogout(c) ==
    /\ Idle(c)
    /\ \E bearer \in Bearers :
         req' = [req EXCEPT ![c] =
                    NewRequest("logout", "authenticate", bearer, 0, NoBody)]
    /\ UNCHANGED <<users, nextId, nextReset, now, held, hits>>

\* changePassword (controller and service) up to user.save(): findById with
\* the password selected and the comparison with the password loaded.
changePassword(c) ==
    /\ req[c].pc = "changePassword"
    /\ LET r == req[c]
           user == findById(r.user.id)
       IN  req' = [req EXCEPT ![c] =
                IF user = 0
                THEN Fail(r, 404, "User not found")
                ELSE IF ~comparePassword(r.body.currentPassword, users[user].password)
                THEN Fail(r, 400, "Current password is incorrect")
                ELSE [r EXCEPT !.pc = "changePassword.save", !.doc = user]]
    /\ UNCHANGED <<users, nextId, nextReset, now, held, hits>>

\* A save that replaces the whole document by the fields it loaded and set:
\* the e-mail is lost.
changePassword_saveReplace(c) ==
    /\ req[c].pc = "changePassword.save"
    /\ LET r == req[c]
       IN  IF findById(r.doc) = 0
           THEN /\ req' = [req EXCEPT ![c] = Fail(r, 500, "Password change failed")]
                /\ UNCHANGED users
           ELSE /\ users' = [users EXCEPT
                               ![r.doc].password = hashPassword(r.body.newPassword),
                               ![r.doc].email = ""]
                /\ req' = [req EXCEPT ![c] =
                        Respond(r, 200, "Password changed successfully", NoData)]
    /\ UNCHANGED <<nextId, nextReset, now, held, hits>>

\* A save that writes the new password and clears the reset fields.
changePassword_saveClear(c) ==
    /\ req[c].pc = "changePassword.save"
    /\ LET r == req[c]
       IN  IF findById(r.doc) = 0
           THEN /\ req' = [req EXCEPT ![c] = Fail(r, 500, "Password change failed")]
                /\ UNCHANGED users
           ELSE /\ users' = [users EXCEPT
                               ![r.doc].password = hashPassword(r.body.newPassword),
                               ![r.doc].passwordResetToken = NullToken,
                               ![r.doc].passwordResetExpires = NullDate]
                /\ req' = [req EXCEPT ![c] =
                        Respond(r, 200, "Password changed successfully", NoData)]
    /\ UNCHANGED <<nextId, nextReset, now, held, hits>>

\* changePassword from user.save() on: the new password (hashed by the
\* pre('save') hook) is written by _id, no other field.
changePassword_save(c) ==
    /\ req[c].pc = "changePassword.save"
    /\ LET r == req[c]
       IN  IF findById(r.doc) = 0
           THEN /\ req' = [req EXCEPT ![c] = Fail(r, 500, "Password change failed")]
                /\ UNCHANGED users
           ELSE /\ users' = [users EXCEPT
                               ![r.doc].password = hashPassword(r.body.newPassword)]
                /\ req' = [req EXCEPT ![c] =
                        Respond(r, 200, "Password changed successfully", NoData)]
    /\ UNCHANGED <<nextId, nextReset, now, held, hits>>

\* ------------------------------------------------------------ password reset
\* passwordResetRequestSchema.body
passwordResetRequestSchema(body) ==
    [ok |-> IsEmail(toLowerCase(body.email)),
     body |-> [NoBody EXCEPT !.email = toLowerCase(body.email)]]

\* passwordResetSchema.body: a non-empty token and a new password.
passwordResetSchema(body) ==
    [ok |-> body.token # NullToken /\ IsNewPassword(body.newPassword),
     body |-> [NoBody EXCEPT !.token = body.token,
                             !.newPassword = body.newPassword]]

\* A POST /auth/forgot-password request arrives.
PostForgot(c, emails) ==
    /\ Idle(c)
    /\ nextReset + Cardinality({d \in Clients : req[d].op = "forgotPassword"
                                                /\ req[d].pc # "done"})
          <= MaxResetTokens
    /\ \E email \in emails :
         req' = [req EXCEPT ![c] =
                    NewRequest("forgotPassword", "forgotPassword", NoToken, 0,
                               [NoBody EXCEPT !.email = email])]
    /\ UNCHANGED <<users, nextId, nextReset, now, held, hits>>

\* A POST /auth/forgot-password request arrives while no reset token has been
\* asked for yet: the only reset token of the run.
PostForgotOnce(c, emails) ==
    /\ nextReset = 1
    /\ \A d \in Clients : req[d].op = "forgotPassword" => req[d].status = 400
    /\ PostForgot(c, emails)

\* requestPasswordReset up to user.save(): the lookup by email.
requestPasswordReset_findOne(r) ==
    LET user == findOneByEmail(r.body.email)
    IN  IF user = 0
        THEN Respond(r, 200,
                     "If the email exists, a password reset link has been sent",
                     NoData)
        ELSE [r EXCEPT !.pc = "requestPasswordReset.save", !.doc = user]

\* validateRequest(passwordResetRequestSchema), forgotPassword, the lookup.
forgotPassword(c) ==
    /\ req[c].pc = "forgotPassword"
    /\ LET r1 == validateRequest(req[c], passwordResetRequestSchema(req[c].body))
       IN  req' = [req EXCEPT ![c] = Then(r1, requestPasswordReset_findOne(r1))]
    /\ UNCHANGED <<users, nextId, nextReset, now, held, hits>>

\* requestPasswordReset from user.save() on: a fresh random token and its
\* expiry are written to the document (by _id) and the token is returned.
requestPasswordReset_save(c) ==
    /\ req[c].pc = "requestPasswordReset.save"
    /\ LET r == req[c]
           resetToken == nextReset
           resetTokenExpiry == now + ResetTokenTtl
       IN  /\ nextReset' = nextReset + 1
           /\ IF findById(r.doc) = 0
              THEN /\ req' = [req EXCEPT ![c] =
                                 Fail(r, 500, "Password reset request failed")]
                   /\ UNCHANGED users
              ELSE /\ users' = [users EXCEPT
                                  ![r.doc].passwordResetToken = resetToken,
                                  ![r.doc].passwordResetExpires = resetTokenExpiry]
                   /\ req' = [req EXCEPT ![c] =
                           Respond(r, 200, "Password reset token generated",
                                   [NoData EXCEPT !.resetToken = resetToken])]
    /\ UNCHANGED <<nextId, now, held, hits>>

\* A POST /auth/reset-password request arrives.
PostReset(c, tokens, passwords) ==
    /\ Idle(c)
    /\ \E token \in tokens, newPassword \in passwords :
         req' = [req EXCEPT ![c] =
                    NewRequest("resetPassword", "resetPassword", NoToken, 0,
                               [NoBody EXCEPT !.token = token,
                                              !.newPassword = newPassword])]
    /\ UNCHANGED <<users, nextId, nextReset, now, held, hits>>

\* resetPassword up to user.save(): the lookup by token and expiry.
resetPassword_findOne(r) ==
    LET user == findOneByResetToken(r.body.token)
    IN  IF user = 0
        THEN Fail(r, 400, "Invalid or expired reset token")
        ELSE [r EXCEPT !.pc = "resetPassword.save", !.doc = user]

\* validateRequest(passwordResetSchema), resetPassword, the lookup.
resetPassword(c) ==
    /\ req[c].pc = "resetPassword"
    /\ LET r1 == validateRequest(req[c], passwordResetSchema(req[c].body))
       IN  req' = [req EXCEPT ![c] = Then(r1, resetPassword_findOne(r1))]
    /\ UNCHANGED <<users, nextId, nextReset, now, held, hits>>

\* A save that writes the new password and leaves the reset fields as they are.
resetPassword_saveKeep(c) ==
    /\ req[c].pc = "resetPassword.save"
    /\ LET r == req[c]
       IN  IF findById(r.doc) = 0
           THEN /\ req' = [req EXCEPT ![c] = Fail(r, 500, "Password reset failed")]
                /\ UNCHANGED users
           ELSE /\ users' = [users EXCEPT
                               ![r.doc].password = hashPassword(r.body.newPassword)]
                /\ req' = [req EXCEPT ![c] =
                        Respond(r, 200, "Password reset successful", NoData)]
    /\ UNCHANGED <<nextId, nextReset, now, held, hits>>

\* resetPassword from user.save() on: the new password (hashed by the
\* pre('save') hook) and the cleared reset fields are written by _id.
resetPassword_save(c) ==
    /\ req[c].pc = "resetPassword.save"
    /\ LET r == req[c]
       IN  IF findById(r.doc) = 0
           THEN /\ req' = [req EXCEPT ![c] = Fail(r, 500, "Password reset failed")]
                /\ UNCHANGED users
           ELSE /\ users' = [users EXCEPT
                               ![r.doc].password = hashPassword(r.body.newPassword),
                               ![r.doc].passwordResetToken = NullToken,
                               ![r.doc].passwordResetExpires = NullDate]
                /\ req' = [req EXCEPT ![c] =
                        Respond(r, 200, "Password reset successful", NoData)]
    /\ UNCHANGED <<nextId, nextReset, now, held, hits>>

\* ----------------------------------------------------------- specifications
\* Accounts and protected routes: register, profile, update, delete.
AccountEmails == {"a@x.io", "b@x.io"}
AccountPasswords == {"secret1"}
AccountRouteIds == Ids
AccountBodies == {[NoBody EXCEPT !.name = "Bo"]}

AccountClients == Clients

NextAccount ==
    \/ \E c \in AccountClients : PostRegister(c, AccountEmails, AccountPasswords)
    \/ \E c \in AccountClients : register(c)
    \/ \E c \in AccountClients : registerUser_save(c)
    \/ \E c \in AccountClients : GetMe(c)
    \/ \E c \in AccountClients : PutUser(c, AccountRouteIds, AccountBodies)
    \/ \E c \in AccountClients : DeleteUser(c, AccountRouteIds)
    \/ \E c \in AccountClients : Authenticate(c)
    \/ \E c \in AccountClients : getProfile(c)
    \/ \E c \in AccountClients : updateUser(c)
    \/ \E c \in AccountClients : deleteUser(c)
    \/ Tick

SpecAccount == Init /\ [][NextAccount]_vars

\* Registration and login, with e-mail addresses that differ in case only.
RegisterEmails == {"a@x.io", "A@x.io", "b@x.io"}
RegisterPasswords == {"secret1", "abc"}
LoginPasswords == {"secret1", "secret2"}

NextRegister ==
    \/ \E c \in Clients : PostRegister(c, RegisterEmails, RegisterPasswords)
    \/ \E c \in Clients : register(c)
    \/ \E c \in Clients : registerUser_save(c)
    \/ \E c \in Clients : PostLogin(c, RegisterEmails, LoginPasswords)
    \/ \E c \in Clients : login(c)
    \/ \E c \in Clients : DeleteUser(c, Ids)
    \/ \E c \in Clients : Authenticate(c)
    \/ \E c \in Clients : deleteUser(c)

SpecRegister == Init /\ [][NextRegister]_vars

\* Password reset: request a token, redeem it, while the clock advances.
ResetEmails == {"a@x.io", "b@x.io"}
ResetTokens == 1..MaxResetTokens
ResetPasswords == {"secret2", "abc"}

NextReset ==
    \/ \E c \in Clients : PostRegister(c, ResetEmails, AccountPasswords)
    \/ \E c \in Clients : register(c)
    \/ \E c \in Clients : registerUser_save(c)
    \/ \E c \in Clients : PostForgot(c, ResetEmails)
    \/ \E c \in Clients : forgotPassword(c)
    \/ \E c \in Clients : requestPasswordReset_save(c)
    \/ \E c \in Clients : PostReset(c, ResetTokens, ResetPasswords)
    \/ \E c \in Clients : resetPassword(c)
    \/ \E c \in Clients : resetPassword_save(c)
    \/ Tick

SpecReset == Init /\ [][NextReset]_vars

\* Changing the password of an account that may be deleted meanwhile.
PasswordEmails == {"a@x.io"}
CurrentPasswords == {"secret1", "secret3"}
NewPasswords == {"secret2"}

NextPassword ==
    \/ \E c \in Clients : PostRegister(c, PasswordEmails, AccountPasswords)
    \/ \E c \in Clients : register(c)
    \/ \E c \in Clients : registerUser_save(c)
    \/ \E c \in Clients : PatchPassword(c, CurrentPasswords, NewPasswords)
    \/ \E c \in Clients : DeleteUser(c, Ids)
    \/ \E c \in Clients : Authenticate(c)
    \/ \E c \in Clients : changePassword(c)
    \/ \E c \in Clients : changePassword_save(c)
    \/ \E c \in Clients : deleteUser(c)
    \/ Tick

SpecPassword == Init /\ [][NextPassword]_vars

\* Sessions: tokens are issued at registration and used while the account
\* logs out, changes its password and resets it.
SessionPasswords == {"secret3"}

NextSession ==
    \/ \E c \in Clients : PostRegister(c, PasswordEmails, AccountPasswords)
    \/ \E c \in Clients : register(c)
    \/ \E c \in Clients : registerUser_save(c)
    \/ \E c \in Clients : PostLogout(c)
    \/ \E c \in Clients : PatchPassword(c, AccountPasswords, NewPasswords)
    \/ \E c \in Clients : Authenticate(c)
    \/ \E c \in Clients : changePassword(c)
    \/ \E c \in Clients : changePassword_save(c)
    \/ \E c \in Clients : PostForgot(c, PasswordEmails)
    \/ \E c \in Clients : forgotPassword(c)
    \/ \E c \in Clients : requestPasswordReset_save(c)
    \/ \E c \in Clients : PostReset(c, ResetTokens, SessionPasswords)
    \/ \E c \in Clients : resetPassword(c)
    \/ \E c \in Clients : resetPassword_save(c)
    \/ Tick

SpecSession == Init /\ [][NextSession]_vars

\* Token verification against accounts that come and go.
NextVerify ==
    \/ \E c \in Clients : PostRegister(c, AccountEmails, AccountPasswords)
    \/ \E c \in Clients : register(c)
    \/ \E c \in Clients : registerUser_save(c)
    \/ \E c \in Clients : DeleteUser(c, Ids)
    \/ \E c \in Clients : Authenticate(c)
    \/ \E c \in Clients : deleteUser(c)
    \/ \E c \in Clients : PostVerify(c)
    \/ \E c \in Clients : verifyTokenRoute(c)
    \/ Tick

SpecVerify == Init /\ [][NextVerify]_vars

\* Rate limiting: one client sends register, login and forgot-password
\* requests, one after the other, from two IPs through the limiters of their
\* routes; the forgot-password requests name a mailbox nobody registers.
LimiterClients == {1}
LimiterEmails == {"a@x.io"}
LimiterPasswords == {"secret1", "secret2"}
LimiterForgotEmails == {"b@x.io"}

NextLimiter ==
    \/ \E c \in LimiterClients :
          Arrive(c, RegisterRequests(LimiterEmails, RegisterPasswords))
    \/ \E c \in LimiterClients : register(c)
    \/ \E c \in LimiterClients : registerUser_save(c)
    \/ \E c \in LimiterClients :
          Arrive(c, LoginRequests(LimiterEmails, LimiterPasswords))
    \/ \E c \in LimiterClients : login(c)
    \/ \E c \in LimiterClients : Arrive(c, ForgotRequests(LimiterForgotEmails))
    \/ \E c \in LimiterClients : forgotPassword(c)
    \/ \E b \in Buckets, ip \in IPs : WindowElapsed(b, ip)

SpecLimiter == Init /\ [][NextLimiter]_vars

\* The order of the stages: change-password requests with well-formed and
\* ill-formed bodies, with and without a good token.
StageNewPasswords == {"secret2", "abc"}

NextStages ==
    \/ \E c \in Clients : PostRegister(c, PasswordEmails, AccountPasswords)
    \/ \E c \in Clients : register(c)
    \/ \E c \in Clients : registerUser_save(c)
    \/ \E c \in Clients : PatchPassword(c, CurrentPasswords, StageNewPasswords)
    \/ \E c \in Clients : Authenticate(c)
    \/ \E c \in Clients : changePassword(c)
    \/ \E c \in Clients : changePassword_save(c)

SpecStages == Init /\ [][NextStages]_vars

\* The user routes: registered users read profiles by id and post to /users.
UsersEmails == {"a@x.io", "b@x.io", "c@x.io"}

NextUsers ==
    \/ \E c \in Clients : PostRegister(c, AccountEmails, AccountPasswords)
    \/ \E c \in Clients : register(c)
    \/ \E c \in Clients : registerUser_save(c)
    \/ \E c \in Clients : GetUser(c, Ids)
    \/ \E c \in Clients : Authenticate(c)
    \/ \E c \in Clients : getUserById(c)
    \/ \E c \in Clients : PostUsers(c, UsersEmails, AccountPasswords)
    \/ \E c \in Clients : notFoundHandler(c)

SpecUsers == Init /\ [][NextUsers]_vars

\* Validation: requests whose body, params and query are well-formed or not,
\* in every combination.
ValidateEmails == {"a@x.io", "A@x.io", "nomail"}
ValidatePasswords == {"secret1", "abc"}
ValidateRouteIds == {1, MalformedId}
ValidatePages == {"", "2", "0"}
ValidateLimits == {"", "5", "200"}

NextValidate ==
    \/ \E c \in Clients : PostValidated(c, ValidateEmails, ValidatePasswords,
                                        ValidateRouteIds, ValidatePages,
                                        ValidateLimits)
    \/ \E c \in Clients : validateAll(c)
    \/ \E c \in Clients : nextHandler(c)
    \/ \E c \in Clients : globalErrorHandler(c)

SpecValidate == Init /\ [][NextValidate]_vars

\* The user list: registered users page through GET /users.
ListPages == {"", "2"}
ListLimits == {"", "5", "200"}

NextList ==
    \/ \E c \in Clients : PostRegister(c, AccountEmails, AccountPasswords)
    \/ \E c \in Clients : register(c)
    \/ \E c \in Clients : registerUser_save(c)
    \/ \E c \in Clients : GetUsers(c, ListPages, ListLimits)
    \/ \E c \in Clients : Authenticate(c)
    \/ \E c \in Clients : getUsers(c)
    \/ \E c \in Clients : globalErrorHandler(c)

SpecList == Init /\ [][NextList]_vars

\* Response bodies: one mailbox registers, logs in, reads its profile, the
\* user list and a user by id, and updates its profile.
BodiesEmails == {"a@x.io"}

NextBodies ==
    \/ \E c \in Clients : PostRegister(c, BodiesEmails, AccountPasswords)
    \/ \E c \in Clients : register(c)
    \/ \E c \in Clients : registerUser_save(c)
    \/ \E c \in Clients : PostLogin(c, BodiesEmails, LoginPasswords)
    \/ \E c \in Clients : login(c)
    \/ \E c \in Clients : GetMe(c)
    \/ \E c \in Clients : getProfile(c)
    \/ \E c \in Clients : GetUsers(c, ListPages, ListLimits)
    \/ \E c \in Clients : getUsers(c)
    \/ \E c \in Clients : GetUser(c, Ids)
    \/ \E c \in Clients : getUserById(c)
    \/ \E c \in Clients : PutUser(c, AccountRouteIds, AccountBodies)
    \/ \E c \in Clients : updateUser(c)
    \/ \E c \in Clients : Authenticate(c)
    \/ \E c \in Clients : globalErrorHandler(c)

SpecBodies == Init /\ [][NextBodies]_vars

\* Stored passwords: an account registers, changes and resets its password
\* and updates its profile with bodies that carry a password of their own.
HashedBodies == {[NoBody EXCEPT !.name = "Bo", !.password = "secret3"]}

NextHashed ==
    \/ \E c \in Clients : PostRegister(c, PasswordEmails, AccountPasswords)
    \/ \E c \in Clients : register(c)
    \/ \E c \in Clients : registerUser_save(c)
    \/ \E c \in Clients : PatchPassword(c, AccountPasswords, NewPasswords)
    \/ \E c \in Clients : Authenticate(c)
    \/ \E c \in Clients : changePassword(c)
    \/ \E c \in Clients : changePassword_save(c)
    \/ \E c \in Clients : PostForgot(c, PasswordEmails)
    \/ \E c \in Clients : forgotPassword(c)
    \/ \E c \in Clients : requestPasswordReset_save(c)
    \/ \E c \in Clients : PostReset(c, ResetTokens, NewPasswords)
    \/ \E c \in Clients : resetPassword(c)
    \/ \E c \in Clients : resetPassword_save(c)
    \/ \E c \in Clients : PutUser(c, Ids, HashedBodies)
    \/ \E c \in Clients : updateUser(c)

SpecHashed == Init /\ [][NextHashed]_vars

\* Errors: requests that fail validation and requests from origins that are
\* and are not allowed reach the catch-all responder.
Origins == {"", "http://localhost:3000", "http://evil.example"}

NextErrors ==
    \/ \E c \in Clients : GetRoot(c, Origins)
    \/ \E c \in Clients : corsMiddleware(c)
    \/ \E c \in Clients : PostValidated(c, ValidateEmails, ValidatePasswords,
                                        ValidateRouteIds, {""}, {""})
    \/ \E c \in Clients : validateAll(c)
    \/ \E c \in Clients : nextHandler(c)
    \/ \E c \in Clients : globalErrorHandler(c)

SpecErrors == Init /\ [][NextErrors]_vars

\* Logging in again: an account changes and resets its password and logs in
\* with the passwords it has had.
NextRelogin ==
    \/ \E c \in Clients : PostRegister(c, PasswordEmails, AccountPasswords)
    \/ \E c \in Clients : register(c)
    \/ \E c \in Clients : registerUser_save(c)
    \/ \E c \in Clients : PatchPassword(c, LoginPasswords, LoginPasswords)
    \/ \E c \in Clients : Authenticate(c)
    \/ \E c \in Clients : changePassword(c)
    \/ \E c \in Clients : changePassword_save(c)
    \/ \E c \in Clients : PostForgot(c, PasswordEmails)
    \/ \E c \in Clients : forgotPassword(c)
    \/ \E c \in Clients : requestPasswordReset_save(c)
    \/ \E c \in Clients : PostReset(c, ResetTokens, LoginPasswords)
    \/ \E c \in Clients : resetPassword(c)
    \/ \E c \in Clients : resetPassword_save(c)
    \/ \E c \in Clients : PostLogin(c, PasswordEmails, LoginPasswords)
    \/ \E c \in Clients : login(c)

SpecRelogin == Init /\ [][NextRelogin]_vars

\* The password-reset limiter: one client sends forgot-password,
\* reset-password and change-password requests, with and without a good
\* token, from two IPs.
NextShared ==
    \/ \E c \in LimiterClients : PostRegister(c, PasswordEmails, AccountPasswords)
    \/ \E c \in LimiterClients : register(c)
    \/ \E c \in LimiterClients : registerUser_save(c)
    \/ \E c \in LimiterClients : Arrive(c, ForgotRequests(PasswordEmails))
    \/ \E c \in LimiterClients : forgotPassword(c)
    \/ \E c \in LimiterClients : requestPasswordReset_save(c)
    \/ \E c \in LimiterClients : Arrive(c, ResetRequests(ResetTokens, NewPasswords))
    \/ \E c \in LimiterClients : resetPassword(c)
    \/ \E c \in LimiterClients : resetPassword_save(c)
    \/ \E c \in LimiterClients :
          Arrive(c, ChangeRequests(AccountPasswords, NewPasswords))
    \/ \E c \in LimiterClients : Authenticate(c)
    \/ \E c \in LimiterClients : changePassword(c)
    \/ \E c \in LimiterClients : changePassword_save(c)
    \/ \E b \in Buckets, ip \in IPs : WindowElapsed(b, ip)

SpecShared == Init /\ [][NextShared]_vars

\* Redeeming one reset token: a single token is handed out and any number of
\* reset requests, concurrent ones included, carry it.
RedeemEmails == {"a@x.io"}
RedeemPasswords == {"secret1", "secret2"}

NextRedeem ==
    \/ \E c \in Clients : PostRegister(c, RedeemEmails, AccountPasswords)
    \/ \E c \in Clients : register(c)
    \/ \E c \in Clients : registerUser_save(c)
    \/ \E c \in Clients : PostForgotOnce(c, RedeemEmails)
    \/ \E c \in Clients : forgotPassword(c)
    \/ \E c \in Clients : requestPasswordReset_save(c)
    \/ \E c \in Clients : PostReset(c, ResetTokens, RedeemPasswords)
    \/ \E c \in Clients : resetPassword(c)
    \/ \E c \in Clients : resetPassword_save(c)
    \/ Tick

SpecRedeem == Init /\ [][NextRedeem]_vars

\* ------------------------------------------------------------------- claims
\* The step of client c that runs authenticate (and the middleware after it).
AuthStep(c) == req[c].pc = "authenticate" /\ req'[c] # req[c]

\* A token the service issued whose holder's record is no longer in the store.
IssuedToDeleted(token) ==
    /\ token.kind = "jwt" /\ token.sig = "ok"
    /\ token.id < nextId
    /\ token.id \notin DOMAIN users

\* C1: once a user record is deleted, authenticate rejects every token issued
\* to that user with 401, whatever happened in between.
C1_DeletedUserTokenRejected ==
    [][\A c \in Clients :
          (AuthStep(c) /\ IssuedToDeleted(req[c].bearer))
              => (req'[c].pc = "done" /\ req'[c].status = 401)]_vars

\* The routes guarded by requireSelfAccess.
SelfRoutes == {"updateUser", "deleteUser"}

\* C2, per request on PUT or DELETE /users/:id: 401 without a context, 403 when
\* the context id differs from the route id, and the request goes on to the
\* controller only with a context whose id is the route id.
C2_Step(c) ==
    (AuthStep(c) /\ req[c].op \in SelfRoutes) =>
        /\ users' = users
        /\ req'[c].user = NoCtx
              => (req'[c].pc = "done" /\ req'[c].status = 401)
        /\ (req'[c].user # NoCtx /\ req'[c].user.id # req[c].rid)
              => (req'[c].pc = "done" /\ req'[c].status = 403)
        /\ req'[c].pc # "done"
              => (/\ req'[c].pc = req[c].op
                  /\ req'[c].user # NoCtx
                  /\ req'[c].user.id = req[c].rid)

\* C2, store side: a record is removed or its name or age changed only by the
\* controller step of a request whose context id and route id are that record's.
C2_Store ==
    \A i \in DOMAIN users :
        (i \notin DOMAIN users' \/ users'[i].name # users[i].name
                                \/ users'[i].age # users[i].age)
            => \E c \in Clients :
                  /\ req[c].pc \in SelfRoutes
                  /\ req[c].user.id = i /\ req[c].rid = i
                  /\ req'[c].pc = "done" /\ req'[c].status = 200

\* C2, the middleware itself: with a context and no route id it answers 400.
C2_MissingId ==
    \A i \in Ids :
        LET r == [NewRequest("updateUser", "authenticate", NoToken, 0, NoBody)
                    EXCEPT !.user = [id |-> i, email |-> "a@x.io"]]
        IN  /\ requireSelfAccess(r).status = 400
            /\ requireSelfAccess([r EXCEPT !.user = NoCtx]).status = 401

\* C2: on PUT and DELETE /users/:id a request without an authenticated context
\* ends 401, without a route id 400, with a context id other than the route id
\* 403, in each case leaving every user record as it is; only a request whose
\* context id equals the route id reaches the update or the delete.
C2_SelfAccessOnly ==
    [][C2_MissingId /\ C2_Store /\ \A c \in Clients : C2_Step(c)]_vars

\* C2 witness: a PUT for another user's id was answered 403 by requireSelfAccess
\* while that other user is in the store.
C2_Witness ==
    \E c \in Clients :
        /\ req[c].op = "updateUser" /\ req[c].pc = "done"
        /\ req[c].status = 403
        /\ req[c].message = "You can only access your own resources."
        /\ \E i \in DOMAIN users : i # req[c].user.id

\* A bearer token that is validly signed, not expired, and whose subject (the
\* user id it was issued to) is in the store.
GoodToken(token) ==
    /\ token.kind = "jwt" /\ token.sig = "ok"
    /\ now < token.exp
    /\ token.id \in DOMAIN users

\* C3: authenticate passes a request on, with { id, email } of the token's
\* subject attached, only if its bearer token is validly signed, unexpired and
\* its subject is in the store; every other request ends 401 with no context
\* (an expired token with the expiry message) and reaches no controller.
C3_AuthenticateOnlyGoodTokens ==
    [][\A c \in Clients :
          AuthStep(c) =>
            LET token == req[c].bearer
            IN  IF GoodToken(token)
                THEN req'[c].user = [id |-> token.id, email |-> token.email]
                ELSE /\ req'[c].user = NoCtx
                     /\ req'[c].pc = "done" /\ req'[c].status = 401
                     /\ (token.kind = "jwt" /\ token.sig = "ok"
                            /\ token.id \in DOMAIN users)
                           => req'[c].message = "Authentication token has expired"]_vars

\* Two e-mail addresses that are equal when letter case is ignored.
SameMailbox(a, b) ==
    \E class \in {{"a@x.io", "A@x.io"}, {"b@x.io", "B@x.io"}} :
        a \in class /\ b \in class

\* The users whose stored e-mail equals `email` ignoring case.
Holders(email) == {i \in DOMAIN users : SameMailbox(users[i].email, email)}

\* The step of client c that leaves program point pc.
StepAt(c, pc) == req[c].pc = pc /\ req'[c] # req[c]

\* C4, the existence check: a valid body with a fresh e-mail goes on to the insert.
C4_Check(c) ==
    (/\ StepAt(c, "register")
     /\ registerUserSchema(req[c].body).ok
     /\ Holders(req[c].body.email) = {})
        => req'[c].pc = "registerUser.save"

\* C4, the insert: with the e-mail still fresh exactly one user is added, with
\* the digest of the password, and a token for it is returned with 201.
C4_Insert(c) ==
    (StepAt(c, "registerUser.save") /\ Holders(req[c].body.email) = {}) =>
        /\ nextId \notin DOMAIN users
        /\ DOMAIN users' = DOMAIN users \cup {nextId}
        /\ \A i \in DOMAIN users : users'[i] = users[i]
        /\ SameMailbox(users'[nextId].email, req[c].body.email)
        /\ users'[nextId].password = hashPassword(req[c].body.password)
        /\ req'[c].pc = "done" /\ req'[c].status = 201
        /\ req'[c].data.token.id = nextId
        /\ verifyToken(req'[c].data.token).ok
        /\ req'[c].data.user.id = nextId

\* C4, the login: the e-mail of a stored user (in any letter case) with the
\* password whose digest that user still holds is answered 200 with a token.
C4_Login(c) ==
    \A i \in DOMAIN users :
        (/\ StepAt(c, "login")
         /\ i \in Holders(req[c].body.email)
         /\ users[i].password = hashPassword(req[c].body.password))
            => /\ req'[c].pc = "done" /\ req'[c].status = 200
               /\ req'[c].data.token.id = i
               /\ verifyToken(req'[c].data.token).ok
               /\ users' = users

\* C4: a valid registration with a fresh e-mail succeeds, creates exactly one
\* user and returns a token; a later login with the same e-mail and password
\* succeeds as long as the user is stored with that password.
C4_RegisterThenLogin ==
    [][\A c \in Clients : C4_Check(c) /\ C4_Insert(c) /\ C4_Login(c)]_vars

\* C4 witness: a login was answered 200 with a valid token of a stored user.
C4_Witness ==
    \E c \in Clients :
        /\ req[c].op = "login" /\ req[c].pc = "done" /\ req[c].status = 200
        /\ req[c].data.token.id \in DOMAIN users
        /\ verifyToken(req[c].data.token).ok

\* C5: a registration whose e-mail equals, ignoring case, the e-mail of a
\* stored user is answered 409; no user is created and no token returned.
C5_DuplicateEmailConflict ==
    [][\A c \in Clients :
          (/\ StepAt(c, "register")
           /\ registerUserSchema(req[c].body).ok
           /\ Holders(req[c].body.email) # {})
              => /\ req'[c].pc = "done" /\ req'[c].status = 409
                 /\ req'[c].data.token = NoToken
                 /\ users' = users /\ nextId' = nextId /\ held' = held]_vars

\* C5 witness: a registration was answered 409 while a user is stored.
C5_Witness ==
    \E c \in Clients :
        /\ req[c].op = "register" /\ req[c].pc = "done" /\ req[c].status = 409
        /\ req[c].message = "Email already registered"
        /\ DOMAIN users # {}

\* C6: no two stored users have e-mails that are equal ignoring case.
C6_EmailUnique ==
    \A i, j \in DOMAIN users :
        i # j => ~SameMailbox(users[i].email, users[j].email)

\* C6 witness: two registrations raced for one e-mail; one is stored and the
\* other one's insert was rejected.
C6_Witness ==
    \E c \in Clients :
        /\ req[c].op = "register" /\ req[c].pc = "done" /\ req[c].status = 500
        /\ DOMAIN users # {}

\* C7: every registration refused because its e-mail is taken is answered 409,
\* the one whose insert the unique index rejects included.
C7_RefusedRegistrationIs409 ==
    \A c \in Clients :
        (/\ req[c].op = "register" /\ req[c].pc = "done"
         /\ req[c].status \notin {201, 400})
            => req[c].status = 409

\* C8: a login with an unknown e-mail and a login with a wrong password get the
\* same answer, 401 'Invalid login credentials', without a token, and leave
\* the store as it is.
C8_LoginFailuresAlike ==
    [][\A c \in Clients :
          LET email == req[c].body.email
              password == req[c].body.password
              unknown == Holders(email) = {}
              wrong == \E i \in Holders(email) :
                          users[i].password # hashPassword(password)
          IN  (/\ StepAt(c, "login")
               /\ loginUserSchema(req[c].body).ok
               /\ (unknown \/ wrong))
                  => /\ req'[c].pc = "done" /\ req'[c].status = 401
                     /\ req'[c].message = "Invalid login credentials"
                     /\ req'[c].data = NoData
                     /\ users' = users /\ held' = held]_vars

\* C8 witness: a login was refused while a user is stored.
C8_Witness ==
    \E c \in Clients :
        /\ req[c].op = "login" /\ req[c].pc = "done" /\ req[c].status = 401
        /\ req[c].message = "Invalid login credentials"
        /\ DOMAIN users # {}

\* An answered forgot-password request that passed validation.
ForgotAnswered(c) ==
    req[c].op = "forgotPassword" /\ req[c].pc = "done" /\ req[c].status # 400

\* C9: every forgot-password request is answered 200 and any two of them, one
\* for the e-mail of a user and one for an e-mail of no user, carry the same
\* generic message.
C9_ForgotAnswerGeneric ==
    \A c, d \in Clients :
        (ForgotAnswered(c) /\ ForgotAnswered(d))
            => /\ req[c].status = 200
               /\ req[c].message = req[d].message

NoHolder(t) == \A i \in DOMAIN users : users[i].passwordResetToken # t

\* C11, the save: a reset that succeeds leaves its user without reset token
\* and expiry, and leaves its token with no user.
C11_Cleared(c) ==
    (StepAt(c, "resetPassword.save") /\ req'[c].status = 200) =>
        /\ users'[req[c].doc].passwordResetToken = NullToken
        /\ users'[req[c].doc].passwordResetExpires = NullDate
        /\ \A i \in DOMAIN users' :
              users'[i].passwordResetToken # req[c].body.token

\* C11, afterwards: a token that was handed out and that no user holds is
\* never stored again, and a reset carrying it is answered 400.
C11_Spent(c) ==
    \A t \in ResetTokens :
        (t < nextReset /\ NoHolder(t)) =>
            /\ \A i \in DOMAIN users' : users'[i].passwordResetToken # t
            /\ (/\ StepAt(c, "resetPassword")
                /\ passwordResetSchema(req[c].body).ok
                /\ req[c].body.token = t)
                  => (req'[c].pc = "done" /\ req'[c].status = 400)

C12_TokenSingleUse ==
    [][\A c \in Clients :
          (StepAt(c, "resetPassword.save") /\ req'[c].status = 200)
              => users[req[c].doc].passwordResetToken = req[c].body.token]_vars

Accepts(t) ==
    authenticate(NewRequest("getProfile", "authenticate", t, 0, NoBody)).pc # "done"

\* A step in which a logout, a change of password or a reset of password
\* succeeds.
SessionOpSucceeds(c) ==
    \/ StepAt(c, "authenticate") /\ req[c].op = "logout" /\ req'[c].status = 200
    \/ StepAt(c, "changePassword.save") /\ req'[c].status = 200
    \/ StepAt(c, "resetPassword.save") /\ req'[c].status = 200

\* C14: a logout, a successful changePassword and a successful resetPassword
\* invalidate no token: a token authenticate accepted before the operation
\* it accepts after it.
C14_NoRevocation ==
    [][\A c \in Clients, t \in held :
          (Accepts(t) /\ SessionOpSucceeds(c)) => Accepts(t)']_vars

\* C14 witness: a client has logged out, the password of a user is no longer
\* the one it registered with, and the token issued at its registration is
\* still accepted.
C14_Witness ==
    \E c \in Clients, t \in held :
        /\ req[c].op = "logout" /\ req[c].pc = "done" /\ req[c].status = 200
        /\ t.id \in DOMAIN users
        /\ users[t.id].password # hashPassword("secret1")
        /\ Accepts(t)

\* C15, the service: for every token and either outcome of the store lookup
\* verifyAuthToken returns a value; it is valid, with the token's { id, email },
\* exactly when the token verifies and the lookup finds the user of the
\* token's id, and invalid with a reason otherwise.
C15_Returns ==
    \A token \in Bearers, lookupFails \in BOOLEAN :
        LET result == verifyAuthToken(token, lookupFails)
            good == /\ token.kind = "jwt" /\ token.sig = "ok" /\ now < token.exp
                    /\ ~lookupFails
                    /\ token.id \in DOMAIN users
        IN  /\ ~result.threw
            /\ result.valid <=> good
            /\ result.valid => result.user = [id |-> token.id, email |-> token.email]
            /\ ~result.valid => (result.user = NoCtx /\ result.error # "")

\* C15, the route: POST /auth/verify-token with a token is answered 200 with
\* the subject or 401, never by the error responder's 500.
C15_Answer(c) ==
    (StepAt(c, "verifyToken") /\ req[c].bearer # NoToken) =>
        /\ req'[c].status \in {200, 401}
        /\ req'[c].status = 200
              => /\ req[c].bearer.id \in DOMAIN users
                 /\ req'[c].data.user.id = req[c].bearer.id
        /\ req'[c].status = 401 => req'[c].message = "Token verification failed"

\* C15: verifyAuthToken never raises and reports valid exactly for a token
\* that verifies and whose id is the id of a stored user.
C15_VerifyNeverRaises ==
    [][C15_Returns /\ \A c \in Clients : C15_Answer(c)]_vars

\* C15 witness: a verify-token request was answered 401 while the clients
\* hold a validly signed token whose user has been deleted.
C15_Witness ==
    \E c \in Clients, t \in held :
        /\ req[c].op = "verifyToken" /\ req[c].pc = "done" /\ req[c].status = 401
        /\ req[c].message = "Token verification failed"
        /\ t.id \notin DOMAIN users


\* A request of client c arrives in this step, and the IP it arrives from: the
\* general limiter is the first of every route and counts every arrival.
Arrives(c) == req[c].pc = "done" /\ req'[c] # req[c]

ArrivalIp == CHOOSE ip \in IPs : hits'["general"][ip] # hits["general"][ip]

\* The limiters of a route as a set.
LimitersOf(op) == {routeLimiters(op)[k] : k \in 1..Len(routeLimiters(op))}

\* C16: a request passes the limiters of its route exactly when each of them
\* has counted fewer than its maximum for the request's IP; otherwise it is
\* answered 429 at arrival, whatever its body, and the store is left alone.
C16_Admission ==
    \A c \in Clients :
        Arrives(c) =>
            /\ hits'["general"][ArrivalIp] = hits["general"][ArrivalIp] + 1
            /\ IF \A b \in LimitersOf(req'[c].op) :
                     hits[b][ArrivalIp] < limiterMax(b)
               THEN /\ req'[c].pc # "done"
                    /\ req'[c].status = 0
                    /\ \A b \in LimitersOf(req'[c].op) :
                          hits'[b][ArrivalIp] = hits[b][ArrivalIp] + 1
               ELSE /\ req'[c].pc = "done"
                    /\ req'[c].status = 429
                    /\ \E b \in LimitersOf(req'[c].op) :
                          /\ hits[b][ArrivalIp] >= limiterMax(b)
                          /\ req'[c].message = limiterMessage(b)
                    /\ UNCHANGED <<users, nextId, nextReset, held>>

\* C16: a count goes down only when its window elapses, which sets it to 0,
\* or, for the auth limiter, when a counted login is answered below 400.
C16_Window ==
    \A b \in Buckets, ip \in IPs :
        hits'[b][ip] < hits[b][ip] =>
            \/ hits'[b][ip] = 0
            \/ /\ b = "auth"
               /\ hits'[b][ip] = hits[b][ip] - 1
               /\ \E c \in Clients : /\ req[c].op = "login"
                                     /\ req[c].ip = ip
                                     /\ req'[c].pc = "done"
                                     /\ req'[c].status < 400

C16_LimitPerWindow == [][C16_Admission /\ C16_Window]_vars

\* A register request was refused by the account-creation limiter, which had
\* counted createAccountMax requests of that IP before it.
C16_Witness ==
    \E c \in Clients, ip \in IPs :
        /\ req[c].op = "register"
        /\ req[c].pc = "done"
        /\ req[c].status = 429
        /\ req[c].message = limiterMessage("createAccount")
        /\ hits["createAccount"][ip] = createAccountMax + 1
        /\ DOMAIN users = {}

\* C17: a step of a request changes no count of another IP and no count of a
\* limiter that is not on the request's route.
C17_Step ==
    \A c \in Clients :
        req'[c] # req[c] =>
            LET ip == IF req[c].pc = "done"
                      THEN IF req'[c].ip # 0 THEN req'[c].ip ELSE ArrivalIp
                      ELSE req[c].ip
                op == IF req[c].pc = "done" THEN req'[c].op ELSE req[c].op
            IN  \A b \in Buckets, other \in IPs :
                    (other # ip \/ b \notin LimitersOf(op)) =>
                        hits'[b][other] = hits[b][other]

C17_CountsIndependent == [][C17_Step]_vars

\* A login was refused by the auth limiter while the general limiter would
\* admit another request of that IP, and the other IP is not refused by the
\* auth limiter.
C17_Witness ==
    \E c \in Clients, ip \in IPs, other \in IPs :
        /\ req[c].op = "login"
        /\ req[c].status = 429
        /\ req[c].message = limiterMessage("auth")
        /\ hits["auth"][ip] > authMax
        /\ hits["general"][ip] < generalMax
        /\ other # ip
        /\ hits["auth"][other] > 0
        /\ hits["auth"][other] < authMax

\* C18: on the change-password route the body is validated before the bearer
\* token is checked: a request whose body fails changePasswordSchema is
\* answered 400, whatever token it carries.
C18_ValidatedBeforeAuthenticated ==
    [][\A c \in Clients :
          (/\ req[c].op = "changePassword"
           /\ req[c].pc = "authenticate"
           /\ ~changePasswordSchema(req[c].body).ok
           /\ req'[c] # req[c])
          => req'[c].status = 400]_vars

\* C19: POST /users with a valid bearer token and a valid body creates the
\* user and is answered 201; without a valid bearer token it is answered 401.
C19_PostUsersReachable ==
    [][\A c \in Clients :
          (/\ req[c].op = "createUser"
           /\ req[c].pc # "done"
           /\ req'[c].pc = "done")
          => IF authenticate(req[c]).pc = "done"
             THEN req'[c].status = 401
             ELSE createUserSchema(req[c].body).ok =>
                    /\ req'[c].status = 201
                    /\ \E i \in DOMAIN users' :
                          users'[i].email = toLowerCase(req[c].body.email)]_vars

\* C20: a GET /users/:id request authenticated as one user for the id of
\* another user is answered 403 and carries no profile.
C20_GetUserSelfAccessOnly ==
    [][\A c \in Clients :
          (/\ req[c].op = "getUserById"
           /\ req[c].pc # "done"
           /\ req[c].user # NoCtx
           /\ req[c].rid \in DOMAIN users
           /\ req[c].rid # req[c].user.id
           /\ req'[c].pc = "done")
          => /\ req'[c].status = 403
             /\ req'[c].data.user = NoJson]_vars

\* C21: validation is all-or-nothing: a request with a failing field in any
\* validated part is refused with one 400 error that lists every failing
\* field of the request in field order, and its body and params are left as
\* they were received.
C21_AllOrNothing ==
    [][\A c \in Clients :
          req[c].pc = "validate" =>
            LET issues == bodyIssues(req[c].body) \o paramsIssues(req[c].rid)
                             \o queryIssues(req[c].query)
            IN  /\ req'[c] # req[c] /\ issues # <<>> =>
                      /\ req'[c].pc = "globalErrorHandler"
                      /\ req'[c].err.statusCode = 400
                      /\ req'[c].err.issues = issues
                      /\ req'[c].body = req[c].body
                      /\ req'[c].rid = req[c].rid]_vars

\* C22: on GET /users the service works with the validated and transformed
\* query: the page and limit its answer repeats are the numbers the schema
\* gives (1 and 10 when the query has none).
C22_ValidatedQueryConsumed ==
    [][\A c \in Clients :
          (req[c].pc = "getUsers" /\ req'[c].pc = "done")
          => /\ req'[c].data.pagination.page =
                   JsNumber(getUsersQuery(req[c].query).page)
             /\ req'[c].data.pagination.limit =
                   JsNumber(getUsersQuery(req[c].query).limit)]_vars

\* C23: no response carries a password hash, in its user or in its user list.
C23_NoPasswordHashInBodies ==
    \A c \in Clients :
        /\ req[c].data.user.password = NoHash
        /\ \A i \in DOMAIN req[c].data.list :
              req[c].data.list[i].password = NoHash

\* Responses of login, register, profile, get-by-id, update and the list
\* carry a user whose stored password is a hash.
C23_Witness ==
    /\ \E c \in Clients :
          /\ req[c].op = "login"
          /\ req[c].status = 200
          /\ req[c].data.user.id \in DOMAIN users
          /\ users[req[c].data.user.id].password # NoHash
    /\ \E c \in Clients :
          /\ req[c].op = "getUsers"
          /\ req[c].status = 200
          /\ Len(req[c].data.list) > 0

\* C24: the password of every stored user is a hash, never a plaintext.
C24_StoredPasswordHashed ==
    \A i \in DOMAIN users : users[i].password.alg = "bcrypt"

\* A PUT /users/:id whose body carried a password was answered 200 for a
\* user whose password has been changed or reset before.
C24_Witness ==
    \E c \in Clients :
        /\ req[c].op = "updateUser"
        /\ req[c].status = 200
        /\ req[c].data.user.name = "Bo"
        /\ users[req[c].data.user.id].password = hashPassword("secret2")

\* C25: the catch-all responder answers an error with the error's status, or
\* 500 when it carries none, and an error that carries no status is answered
\* with a generic message, not with its own.
C25_GenericMessageForRawErrors ==
    [][\A c \in Clients :
          (req[c].pc = "globalErrorHandler" /\ req'[c].pc = "done") =>
            LET err == req[c].err
                raw == err.statusCode = 0 /\ err.status = 0
            IN  /\ req'[c].status = IF err.statusCode # 0 THEN err.statusCode
                                    ELSE IF err.status # 0 THEN err.status
                                    ELSE 500
                /\ raw => req'[c].message # err.message]_vars

\* C26: verify-token and the authentication middleware agree on every token
\* a client can present: the one reports it valid exactly when the other
\* accepts it, and then both name the same user id.
C26_VerifyAgreesWithAuthenticate ==
    \A token \in Bearers :
        LET result == verifyAuthToken(token, FALSE)
            r == authenticate(NewRequest("getProfile", "authenticate",
                                         token, 0, NoBody))
        IN  /\ result.valid <=> r.pc # "done"
            /\ result.valid => result.user.id = r.user.id

\* The status a login with this e-mail and password is answered with.
LoginAnswer(email, password) ==
    loginUser(NewRequest("login", "login", NoToken, 0,
                         [NoBody EXCEPT !.email = email,
                                        !.password = password])).status

C28_OneOutstandingToken ==
    [][\A c \in Clients :
          (/\ StepAt(c, "resetPassword.save")
           /\ req'[c].status = 200
           /\ users[req[c].doc].passwordResetToken # NullToken)
          => users[req[c].doc].passwordResetToken = req[c].body.token]_vars

\* C29: a successful changePassword leaves the user's reset token and its
\* expiry as they were: every reset token resetPassword's lookup accepted
\* for the user before the change it accepts after it.
C29_ChangeKeepsResetToken ==
    [][\A c \in Clients, u \in Ids, t \in ResetTokens :
          (/\ StepAt(c, "changePassword.save")
           /\ req'[c].status = 200
           /\ u = req[c].doc)
          => /\ users'[u].passwordResetToken = users[u].passwordResetToken
             /\ users'[u].passwordResetExpires = users[u].passwordResetExpires
             /\ findOneByResetToken(t) = u => findOneByResetToken(t)' = u]_vars

\* A password has been changed for a user who holds an unexpired reset token.
C29_Witness ==
    \E c \in Clients, u \in DOMAIN users :
        /\ req[c].op = "changePassword" /\ req[c].status = 200
        /\ users[u].password = hashPassword("secret2")
        /\ users[u].passwordResetToken # NullToken
        /\ findOneByResetToken(users[u].passwordResetToken) = u

\* The routes behind the password-reset limiter.
ResetRoutes == {"forgotPassword", "resetPassword", "changePassword"}

\* C30: forgot-password, reset-password and change-password count against one
\* password-reset counter per IP: a request to any of them that the general
\* limiter admits adds one to it, whatever token it carries, and is answered
\* 429 by it exactly when the counter has reached its maximum.
C30_SharedResetCounter ==
    [][\A c \in Clients :
          (/\ Arrives(c)
           /\ req'[c].op \in ResetRoutes
           /\ hits["general"][ArrivalIp] < generalMax)
          => /\ hits'["passwordReset"][ArrivalIp] =
                   hits["passwordReset"][ArrivalIp] + 1
             /\ IF hits["passwordReset"][ArrivalIp] >= passwordResetMax
                THEN /\ req'[c].status = 429
                     /\ req'[c].message = limiterMessage("passwordReset")
                     /\ UNCHANGED <<users, nextReset, held>>
                ELSE req'[c].pc # "done"]_vars

\* No account exists, so no request ever carried a good token: a
\* change-password request was still refused by the password-reset limiter,
\* whose counter earlier requests to these routes had used up.
C30_Witness ==
    \E c \in Clients, ip \in IPs :
        /\ req[c].op = "changePassword"
        /\ req[c].status = 429
        /\ req[c].message = limiterMessage("passwordReset")
        /\ hits["passwordReset"][ip] = passwordResetMax + 1
        /\ DOMAIN users = {}

====
